---- MODULE Spec2Model ----
(***************************************************************************)
(* A model of the book chapter summarizer (summarizer.py, run_all.py,      *)
(* config.py).                                                             *)
(*                                                                         *)
(* The module holds one specification per part of the program:             *)
(*   SpecChunk   chunk_text, on texts spelled out character by character   *)
(*   SpecMerge   merge_extractions, one loop iteration per step            *)
(*   SpecTarget  the target word count computed by generate_summary        *)
(*   SpecSummary generate_summary, one request to the service per step     *)
(*   SpecExtract extract_elements, one request to the service per step     *)
(*   Spec        process_book inside run_all's loop over the books         *)
(* Every specification leaves the variables of the others at their idle    *)
(* values.                                                                 *)
(***************************************************************************)
EXTENDS Integers, Sequences, FiniteSets, TLC

VARIABLES
    \* ---- chunk_text ----
    text,            \* the argument text, a sequence of characters
    max_tokens,      \* the argument max_tokens
    chunks,          \* the returned list of segments (each a sequence of characters)
    para_groups,     \* the paragraphs the loop put in each segment (<<>> on the early return)
    chunk_pc         \* "call" before chunk_text has run, "returned" after

varsChunk == <<text, max_tokens, chunks, para_groups, chunk_pc>>

VARIABLES
    \* ---- merge_extractions ----
    extractions,     \* the argument: one extraction dict per segment
    book_type,       \* the argument: "fiction" or "nonfiction"
    merged,          \* the local dict merged
    seen,            \* the local set seen_chars / seen_concepts
    merge_k,         \* the index of the next element of extractions
    merge_orders,    \* per segment and set-like field, the order list(set(...)) gave
    merge_pc         \* "call", "loop", "returned"

varsMerge == <<extractions, book_type, merged, seen, merge_k, merge_orders, merge_pc>>

VARIABLES
    \* ---- the target word count of generate_summary ----
    target_calls     \* the last two computations: [original_words, target_words]

varsTarget == <<target_calls>>

VARIABLES
    \* ---- generate_summary ----
    sum_words,       \* count_words(chapter_text)
    sum_story,       \* the argument story_so_far
    sum_chunks,      \* chunks, as chunk_text(chapter_text) returned it
    sum_target,      \* the local target_words
    chunk_summaries, \* the local list chunk_summaries
    sum_requests,    \* the prompts handed to call_llm so far, in order
    sum_responses,   \* what call_llm returned for each of them
    sum_result,      \* the value generate_summary returned
    sum_pc           \* "call", "single", "loop", "returned", "raised"

varsSummary == <<sum_words, sum_story, sum_chunks, sum_target, chunk_summaries,
                 sum_requests, sum_responses, sum_result, sum_pc>>

VARIABLES
    \* ---- extract_elements ----
    ext_book_type,   \* the argument book_type
    ext_prior,       \* the argument prior_context
    ext_chunks,      \* chunks, as chunk_text(chapter_text) returned it
    all_extractions, \* the local list all_extractions
    ext_requests,    \* the prompts handed to call_llm so far, in order
    ext_responses,   \* what call_llm returned for each of them
    ext_result,      \* the value extract_elements returned
    ext_pc           \* "call", "single", "loop", "returned", "raised"

varsExtract == <<ext_book_type, ext_prior, ext_chunks, all_extractions, ext_requests,
                 ext_responses, ext_result, ext_pc>>

VARIABLES
    \* ---- run_all and process_book ----
    num_books,       \* len(book_folders)
    book,            \* the position of run_all's loop in book_folders, from 1
    outcomes,        \* per book processed: "done" (process_book returned) or "raised"
    chapters,        \* the chapters of the book being processed: their word counts
    i,               \* the position of process_book's loop in chapters, from 1
    context,         \* the rolling context
    story_so_far,    \* the locals of the loop body
    themes_so_far,
    extraction,
    summary,
    analysis,
    files,           \* the chapter outputs in the book's output directory, by chapter
    context_file,    \* what has been written to book_context.json, in order
    calls,           \* the stage calls process_book has made for this book, in order
    pc               \* where the program is

varsBook == <<num_books, book, outcomes, chapters, i, context, story_so_far,
              themes_so_far, extraction, summary, analysis, files, context_file,
              calls, pc>>

vars == <<varsChunk, varsMerge, varsTarget, varsSummary, varsExtract, varsBook>>

\* What each part of the program leaves alone: the variables of the other parts.
notChunk == <<varsMerge, varsTarget, varsSummary, varsExtract, varsBook>>

notMerge == <<varsChunk, varsTarget, varsSummary, varsExtract, varsBook>>

notTarget == <<varsChunk, varsMerge, varsSummary, varsExtract, varsBook>>

notSummary == <<varsChunk, varsMerge, varsTarget, varsExtract, varsBook>>

notBook == <<varsChunk, varsMerge, varsTarget, varsSummary, varsExtract>>

notExtract == <<varsChunk, varsMerge, varsTarget, varsSummary, varsBook>>

(***************************************************************************)
(* Bounds of the model.                                                    *)
(***************************************************************************)
MaxTextLen == 5
MaxTokenLimit == 4
MaxSegments == 2
MaxItems == 2
MaxWords == 3000
MaxSummarySegments == 3
MaxBooks == 2
MaxChapters == 3

(***************************************************************************)
(* Text.  A text is a sequence of characters; NL is the newline and SEP    *)
(* the blank-line paragraph separator "\n\n".                              *)
(***************************************************************************)
NL == "\n"

Letters == {"a", "b"}

Alphabet == Letters \cup {NL}

SEP == <<NL, NL>>

RECURSIVE SplitFrom(_, _)
\* str.split("\n\n") scanning `rest` from the left with `cur` the piece being
\* read: the separator is matched greedily, left to right, without overlap.
SplitFrom(rest, cur) ==
    IF rest = <<>> THEN <<cur>>
    ELSE IF Len(rest) >= 2 /\ rest[1] = NL /\ rest[2] = NL
         THEN <<cur>> \o SplitFrom(SubSeq(rest, 3, Len(rest)), <<>>)
         ELSE SplitFrom(Tail(rest), Append(cur, rest[1]))

\* text.split("\n\n")
SplitParagraphs(t) == SplitFrom(t, <<>>)

RECURSIVE JoinParagraphs(_)
\* "\n\n".join(parts)
JoinParagraphs(parts) ==
    IF parts = <<>> THEN <<>>
    ELSE IF Len(parts) = 1 THEN parts[1]
         ELSE parts[1] \o SEP \o JoinParagraphs(Tail(parts))

\* len(tokenizer.encode(text)).  The tokenizer is the tiktoken library; the
\* model's stand-in makes every character one token, so the empty text has no
\* token and a text has at least as many tokens as its paragraphs together.
count_tokens(t) == Len(t)

RECURSIVE ChunkLoop_DropsParagraph(_, _, _, _, _)
\* A slip in the loop: the paragraph that closes a segment is not put in the
\* next one.
ChunkLoop_DropsParagraph(paragraphs, k, groups, current_chunk, current_tokens) ==
    IF k > Len(paragraphs)
    THEN IF current_chunk # <<>> THEN Append(groups, current_chunk) ELSE groups
    ELSE LET para == paragraphs[k]
             para_tokens == count_tokens(para)
         IN  IF current_tokens + para_tokens > max_tokens /\ current_chunk # <<>>
             THEN ChunkLoop_DropsParagraph(paragraphs, k + 1,
                      Append(groups, current_chunk), <<>>, 0)
             ELSE ChunkLoop_DropsParagraph(paragraphs, k + 1, groups,
                      Append(current_chunk, para), current_tokens + para_tokens)

RECURSIVE ChunkLoop(_, _, _, _, _)
\* The for loop of chunk_text over paragraphs[k..], then the final flush.  The
\* value is the list of paragraph groups; chunk_text joins each into a segment.
ChunkLoop(paragraphs, k, groups, current_chunk, current_tokens) ==
    IF k > Len(paragraphs)
    THEN IF current_chunk # <<>> THEN Append(groups, current_chunk) ELSE groups
    ELSE LET para == paragraphs[k]
             para_tokens == count_tokens(para)
         IN  IF current_tokens + para_tokens > max_tokens /\ current_chunk # <<>>
             THEN ChunkLoop(paragraphs, k + 1, Append(groups, current_chunk),
                            <<para>>, para_tokens)
             ELSE ChunkLoop(paragraphs, k + 1, groups,
                            Append(current_chunk, para), current_tokens + para_tokens)

\* The paragraph groups chunk_text builds on its splitting path.
ChunkGroups(t) == ChunkLoop(SplitParagraphs(t), 1, <<>>, <<>>, 0)

\* The segments chunk_text returns from its splitting path.
ChunkSplit(t) == [g \in 1..Len(ChunkGroups(t)) |-> JoinParagraphs(ChunkGroups(t)[g])]

\* A slip on the early return: the text comes back cut at its paragraph
\* boundaries instead of whole.
chunk_text_ParagraphsOnReturn(t) ==
    IF count_tokens(t) <= max_tokens THEN SplitParagraphs(t) ELSE ChunkSplit(t)

\* chunk_text(text, max_tokens); max_tokens is the variable of that name.
chunk_text(t) ==
    IF count_tokens(t) <= max_tokens THEN <<t>> ELSE ChunkSplit(t)

RECURSIVE SeqsUpTo(_, _)
\* The sequences over S of length at most n.
SeqsUpTo(S, n) ==
    IF n = 0 THEN {<<>>}
    ELSE LET shorter == SeqsUpTo(S, n - 1)
         IN  shorter \cup {Append(s, x) : s \in {q \in shorter : Len(q) = n - 1}, x \in S}

Texts == SeqsUpTo(Alphabet, MaxTextLen)

IdleChunk ==
    /\ text = <<>>
    /\ max_tokens = 0
    /\ chunks = <<>>
    /\ para_groups = <<>>
    /\ chunk_pc = "idle"

InitChunk ==
    /\ text \in Texts
    /\ max_tokens \in (0 - 1)..MaxTokenLimit
    /\ chunks = <<>>
    /\ para_groups = <<>>
    /\ chunk_pc = "call"

\* One call of chunk_text(text, max_tokens).
ChunkText ==
    /\ chunk_pc = "call"
    /\ chunks' = chunk_text(text)
    /\ para_groups' = IF count_tokens(text) <= max_tokens THEN <<>> ELSE ChunkGroups(text)
    /\ chunk_pc' = "returned"
    /\ UNCHANGED <<text, max_tokens, notChunk>>

NextChunk == ChunkText

(***************************************************************************)
(* merge_extractions.  An extraction dict is a function from the field     *)
(* names it holds to their values; a field the response left out is not in *)
(* its domain.                                                             *)
(***************************************************************************)
\* Python's None, the value of dict.get for a key the dict lacks.
None == "<None>"

\* d.get(key, default)
Get(d, key, default) == IF key \in DOMAIN d THEN d[key] ELSE default

\* d.get(key)
GetOrNone(d, key) == Get(d, key, None)

\* The key that identifies an entry of the key-identified list of a book type.
KeyName(bt) == IF bt = "fiction" THEN "name" ELSE "concept"

KeyedField(bt) == IF bt = "fiction" THEN "characters" ELSE "key_concepts"

PlainFields(bt) ==
    IF bt = "fiction"
    THEN {"events", "plot_developments", "clues_or_foreshadowing", "relationships"}
    ELSE {"main_arguments", "evidence", "case_studies", "figures_data", "connections"}

SetFields(bt) ==
    IF bt = "fiction" THEN {"settings"}
    ELSE {"historical_references", "techniques_methods"}

ScalarFields(bt) == IF bt = "fiction" THEN {"tone_mood"} ELSE {}

\* The initial value of merged.
EmptyMerged(bt) ==
    IF bt = "fiction"
    THEN [characters |-> <<>>, events |-> <<>>, plot_developments |-> <<>>,
          settings |-> <<>>, clues_or_foreshadowing |-> <<>>,
          relationships |-> <<>>, tone_mood |-> ""]
    ELSE [main_arguments |-> <<>>, key_concepts |-> <<>>, evidence |-> <<>>,
          case_studies |-> <<>>, historical_references |-> <<>>,
          techniques_methods |-> <<>>, figures_data |-> <<>>, connections |-> <<>>]

RECURSIVE KeyedLoop_LastWins(_, _, _, _, _)
\* A slip in the inner loop: an entry whose key was seen replaces the kept one.
KeyedLoop_LastWins(items, j, key, list, seenKeys) ==
    IF j > Len(items) THEN [list |-> list, seen |-> seenKeys]
    ELSE IF GetOrNone(items[j], key) \notin seenKeys
         THEN KeyedLoop_LastWins(items, j + 1, key, Append(list, items[j]),
                                 seenKeys \cup {GetOrNone(items[j], key)})
         ELSE KeyedLoop_LastWins(items, j + 1, key,
                  [p \in 1..Len(list) |->
                      IF GetOrNone(list[p], key) = GetOrNone(items[j], key)
                      THEN items[j] ELSE list[p]],
                  seenKeys)

RECURSIVE KeyedLoop_KeepsKeyless(_, _, _, _, _)
\* A slip in the inner loop: an entry without the key is appended whatever
\* was seen, and is not remembered.
KeyedLoop_KeepsKeyless(items, j, key, list, seenKeys) ==
    IF j > Len(items) THEN [list |-> list, seen |-> seenKeys]
    ELSE IF key \notin DOMAIN items[j]
         THEN KeyedLoop_KeepsKeyless(items, j + 1, key, Append(list, items[j]), seenKeys)
         ELSE IF items[j][key] \notin seenKeys
              THEN KeyedLoop_KeepsKeyless(items, j + 1, key, Append(list, items[j]),
                                          seenKeys \cup {items[j][key]})
              ELSE KeyedLoop_KeepsKeyless(items, j + 1, key, list, seenKeys)

RECURSIVE KeyedLoop(_, _, _, _, _)
\* for char in ext.get("characters", []): append char unless its name was seen
\* (for concept in ext.get("key_concepts", []) likewise), from entry j on.
KeyedLoop(items, j, key, list, seenKeys) ==
    IF j > Len(items) THEN [list |-> list, seen |-> seenKeys]
    ELSE IF GetOrNone(items[j], key) \notin seenKeys
         THEN KeyedLoop(items, j + 1, key, Append(list, items[j]),
                        seenKeys \cup {GetOrNone(items[j], key)})
         ELSE KeyedLoop(items, j + 1, key, list, seenKeys)

\* The elements of a list, as set(...) holds them.
Elems(list) == {list[p] : p \in 1..Len(list)}

\* A slip: set(...) is left out, the list is taken as it is.
ListOfSet_KeepsDuplicates(xs) == {xs}

\* The lists list(set(xs)) can be: the elements of xs, each once, in any order.
ListOfSet(xs) ==
    {q \in [1..Cardinality(Elems(xs)) -> Elems(xs)] :
        \A a, b \in DOMAIN q : a # b => q[a] # q[b]}

\* A slip: the plain list fields keep one copy of a value only.
ExtendList_Unique(list, more) ==
    list \o SelectSeq(more, LAMBDA x : x \notin Elems(list))

\* list.extend(more)
ExtendList(list, more) == list \o more

\* A slip: the tone of a segment always overwrites, also when it is empty.
MergeTone_Overwrite(old, ext) == Get(ext, "tone_mood", "")

\* if ext.get("tone_mood"): merged["tone_mood"] = ext.get("tone_mood")
MergeTone(old, ext) ==
    IF GetOrNone(ext, "tone_mood") \notin {None, ""} THEN ext["tone_mood"] ELSE old

\* One iteration of the fiction loop for ext; order is what list(set(...)) gave.
MergeFiction(m, seenKeys, ext, order) ==
    LET kl == KeyedLoop(Get(ext, "characters", <<>>), 1, "name", m.characters, seenKeys)
    IN  [merged |->
            [characters |-> kl.list,
             events |-> ExtendList(m.events, Get(ext, "events", <<>>)),
             plot_developments |->
                 ExtendList(m.plot_developments, Get(ext, "plot_developments", <<>>)),
             settings |-> ExtendList(m.settings, order["settings"]),
             clues_or_foreshadowing |->
                 ExtendList(m.clues_or_foreshadowing,
                            Get(ext, "clues_or_foreshadowing", <<>>)),
             relationships |-> ExtendList(m.relationships, Get(ext, "relationships", <<>>)),
             tone_mood |-> MergeTone(m.tone_mood, ext)],
         seen |-> kl.seen]

\* One iteration of the nonfiction loop for ext.
MergeNonfiction(m, seenKeys, ext, order) ==
    LET kl == KeyedLoop(Get(ext, "key_concepts", <<>>), 1, "concept",
                        m.key_concepts, seenKeys)
    IN  [merged |->
            [main_arguments |-> ExtendList(m.main_arguments, Get(ext, "main_arguments", <<>>)),
             key_concepts |-> kl.list,
             evidence |-> ExtendList(m.evidence, Get(ext, "evidence", <<>>)),
             case_studies |-> ExtendList(m.case_studies, Get(ext, "case_studies", <<>>)),
             historical_references |->
                 ExtendList(m.historical_references, order["historical_references"]),
             techniques_methods |->
                 ExtendList(m.techniques_methods, order["techniques_methods"]),
             figures_data |-> ExtendList(m.figures_data, Get(ext, "figures_data", <<>>)),
             connections |-> ExtendList(m.connections, Get(ext, "connections", <<>>))],
         seen |-> kl.seen]

\* The orders list(set(ext.get(f, []))) can give for the set-like fields of ext.
SetOrders(bt, ext) ==
    {o \in [SetFields(bt) -> UNION {ListOfSet(Get(ext, f, <<>>)) : f \in SetFields(bt)}] :
        \A f \in SetFields(bt) : o[f] \in ListOfSet(Get(ext, f, <<>>))}

(***************************************************************************)
(* The extraction dicts the model feeds to merge_extractions.  One group   *)
(* of fields (the key-identified list, the plain lists, the set-like       *)
(* lists, the tone) ranges over all its values while the others hold a     *)
(* fixed value; a field may also be missing from a dict.                   *)
(***************************************************************************)
\* Entries of the key-identified list: two share a key, one has no key.
KeyedEntries(bt) ==
    LET k == KeyName(bt)
    IN  {[f \in {k, "description"} |-> IF f = k THEN "Poirot" ELSE "d1"],
         [f \in {k, "description"} |-> IF f = k THEN "Poirot" ELSE "d2"],
         [f \in {"description"} |-> "d3"]}

Values == {"x", "y"}

\* A field of a dict: there or not, and its value.
Present(v) == [present |-> TRUE, val |-> v]

Absent == [present |-> FALSE, val |-> <<>>]

FieldChoices(S) == {Present(q) : q \in SeqsUpTo(S, MaxItems)} \cup {Absent}

ToneChoices == {Present(""), Present("dark"), Present("light"), [present |-> FALSE, val |-> ""]}

\* The values of field f: each value tagged with the name of its field.
Tagged(f, list) == [p \in 1..Len(list) |-> <<f, list[p]>>]

\* The dict with the key-identified list k, the plain lists p, the set-like lists s
\* and the tone t.
MkExt(bt, k, p, s, t) ==
    LET fields ==
            (IF k.present THEN {KeyedField(bt)} ELSE {})
            \cup (IF p.present THEN PlainFields(bt) ELSE {})
            \cup (IF s.present THEN SetFields(bt) ELSE {})
            \cup (IF t.present THEN ScalarFields(bt) ELSE {})
    IN  [f \in fields |->
            IF f = KeyedField(bt) THEN k.val
            ELSE IF f \in PlainFields(bt) THEN Tagged(f, p.val)
            ELSE IF f \in SetFields(bt) THEN Tagged(f, s.val)
            ELSE t.val]

ExtChoices(bt) ==
    LET k0 == Present(<<[f \in {KeyName(bt), "description"} |->
                            IF f = KeyName(bt) THEN "Hastings" ELSE "d1"]>>)
        p0 == Present(<<"x">>)
        s0 == Present(<<"y", "y">>)
        t0 == Present("dark")
    IN  [keyed |-> {MkExt(bt, k, p0, s0, t0) : k \in FieldChoices(KeyedEntries(bt))},
         plain |-> {MkExt(bt, k0, p, s0, t0) : p \in FieldChoices(Values)},
         setlike |-> {MkExt(bt, k0, p0, s, t0) : s \in FieldChoices(Values)},
         tone |-> {MkExt(bt, k0, p0, s0, t) : t \in ToneChoices}]

\* The lists of 1..n elements of S.
NonEmptySeqsUpTo(S, n) == UNION {[1..m -> S] : m \in 1..n}

IdleMerge ==
    /\ extractions = <<>>
    /\ book_type = "none"
    /\ merged = <<>>
    /\ seen = {}
    /\ merge_k = 0
    /\ merge_orders = <<>>
    /\ merge_pc = "idle"

InitMerge ==
    /\ book_type \in {"fiction", "nonfiction"}
    /\ \E group \in {"keyed", "plain", "setlike", "tone"} :
          extractions \in NonEmptySeqsUpTo(ExtChoices(book_type)[group], MaxSegments)
    /\ merged = <<>>
    /\ seen = {}
    /\ merge_k = 0
    /\ merge_orders = <<>>
    /\ merge_pc = "call"

\* merged = {...}; seen_chars = set()  (seen_concepts = set())
MergeBegin ==
    /\ merge_pc = "call"
    /\ merged' = EmptyMerged(book_type)
    /\ seen' = {}
    /\ merge_k' = 1
    /\ merge_pc' = "loop"
    /\ UNCHANGED <<extractions, book_type, merge_orders, notMerge>>

\* One iteration of "for ext in extractions".
MergeSegment ==
    /\ merge_pc = "loop"
    /\ merge_k <= Len(extractions)
    /\ \E order \in SetOrders(book_type, extractions[merge_k]) :
          LET r == IF book_type = "fiction"
                   THEN MergeFiction(merged, seen, extractions[merge_k], order)
                   ELSE MergeNonfiction(merged, seen, extractions[merge_k], order)
          IN  /\ merged' = r.merged
              /\ seen' = r.seen
              /\ merge_orders' = Append(merge_orders, order)
    /\ merge_k' = merge_k + 1
    /\ UNCHANGED <<extractions, book_type, merge_pc, notMerge>>

\* return merged
MergeReturn ==
    /\ merge_pc = "loop"
    /\ merge_k > Len(extractions)
    /\ merge_pc' = "returned"
    /\ UNCHANGED <<extractions, book_type, merged, seen, merge_k, merge_orders, notMerge>>

NextMerge == MergeBegin \/ MergeSegment \/ MergeReturn

(***************************************************************************)
(* The target word count of generate_summary.                              *)
(***************************************************************************)
\* config.TARGET_SUMMARY_RATIO = 0.13, in hundredths.
TARGET_SUMMARY_RATIO_PERCENT == 13

\* The floor of max(200, target_words).
MIN_TARGET_WORDS == 200

Max(a, b) == IF a >= b THEN a ELSE b

\* A slip: the ratio used is config.MIN_SUMMARY_RATIO = 0.10.
IntOfRatio_MinRatio(w) == (w * 10) \div 100

\* int(original_words * config.TARGET_SUMMARY_RATIO): the float product cut to
\* an integer.  For every word count up to 200000 Python's value is the exact
\* product 13 * w / 100 rounded down.
IntOfRatio(w) == (w * TARGET_SUMMARY_RATIO_PERCENT) \div 100

\* A slip: the floor is left out.
TargetWords_NoFloor(w) == IntOfRatio(w)

\* A slip: the product is rounded to the nearest integer instead of cut.
TargetWords_Rounded(w) ==
    Max(MIN_TARGET_WORDS, (w * TARGET_SUMMARY_RATIO_PERCENT + 50) \div 100)

\* target_words = max(200, int(original_words * config.TARGET_SUMMARY_RATIO))
TargetWords(w) == Max(MIN_TARGET_WORDS, IntOfRatio(w))

\* The word counts the model tries: samples over 0..MaxWords, and every count
\* near the two places where the floor stops mattering (200 / 0.15 and
\* 200 / 0.13).
WordCounts ==
    {w \in 0..MaxWords :
        \/ w % 100 \in {0, 50, 99}
        \/ (w >= 1325 /\ w <= 1340)
        \/ (w >= 1530 /\ w <= 1550)}

IdleTarget == target_calls = <<>>

InitTarget == target_calls = <<>>

\* The first statements of generate_summary for a chapter of w words.
ComputeTarget(w) ==
    /\ target_calls' =
          (IF target_calls = <<>> THEN <<>> ELSE <<target_calls[Len(target_calls)]>>)
          \o <<[original_words |-> w, target_words |-> TargetWords(w)]>>
    /\ UNCHANGED notTarget

NextTarget == \E w \in WordCounts : ComputeTarget(w)

(***************************************************************************)
(* generate_summary.  A summary is a text written as runs of characters,   *)
(* <<[ch |-> c, n |-> k], ...>>: k times the character c.                  *)
(***************************************************************************)
Run(c, k) == <<[ch |-> c, n |-> k]>>

RECURSIVE TextLen(_)
\* len(s)
TextLen(s) == IF s = <<>> THEN 0 ELSE s[1].n + TextLen(Tail(s))

RECURSIVE Prefix(_, _)
\* s[:k], the first k characters of s (all of s when it is shorter)
Prefix(s, k) ==
    IF s = <<>> \/ k <= 0 THEN <<>>
    ELSE IF s[1].n <= k THEN <<s[1]>> \o Prefix(Tail(s), k - s[1].n)
         ELSE Run(s[1].ch, k)

\* The length of the excerpt chunk_summaries[-1][:500].
EXCERPT_CHARS == 500

\* What the service may answer to a summary request: a short text, and two
\* texts longer than the excerpt that differ at their start.
SummaryTexts ==
    {Run("p", 120), Run("q", 400) \o Run("r", 400), Run("s", 400) \o Run("r", 400)}

\* story_so_far or "This is the first chapter."
StoryOrFirst(story) == IF story = "" THEN "This is the first chapter." ELSE story

\* The prompt of the single request of an unsplit chapter.
SingleRequest(story, target_words) ==
    [kind |-> "summary", part |-> 0, of |-> 1, chapter_text |-> "chapter",
     story_so_far |-> StoryOrFirst(story), has_previous |-> FALSE, previous_part |-> <<>>,
     partials |-> <<>>, target_words |-> target_words]

\* A slip: the excerpt is taken from the first summary, not the latest.
SegmentRequest_FirstSummary(idx, chunk, count, story, sums, target_words) ==
    [kind |-> "summary", part |-> idx, of |-> count, chapter_text |-> chunk,
     story_so_far |-> story,
     has_previous |-> (idx # 1),
     previous_part |-> IF idx = 1 THEN <<>> ELSE Prefix(sums[1], EXCERPT_CHARS),
     partials |-> <<>>,
     target_words |-> target_words \div count]

\* The prompt for chunks[idx] (idx counted from 1), the summaries so far being sums.
SegmentRequest(idx, chunk, count, story, sums, target_words) ==
    [kind |-> "summary", part |-> idx, of |-> count, chapter_text |-> chunk,
     story_so_far |-> story,
     has_previous |-> (idx # 1),
     previous_part |-> IF idx = 1 THEN <<>> ELSE Prefix(sums[Len(sums)], EXCERPT_CHARS),
     partials |-> <<>>,
     target_words |-> target_words \div count]

\* A slip: the combination asks for the per-segment share of the target.
CombineRequest_SegmentTarget(sums, target_words) ==
    [kind |-> "combine", part |-> 0, of |-> Len(sums), chapter_text |-> "none",
     story_so_far |-> "", has_previous |-> FALSE, previous_part |-> <<>>,
     partials |-> [k \in 1..Len(sums) |-> [part |-> k, summary |-> sums[k]]],
     target_words |-> target_words \div Len(sums)]

\* combine_prompt: "Part k: <summary k>" for every chunk summary, and target_words.
CombineRequest(sums, target_words) ==
    [kind |-> "combine", part |-> 0, of |-> Len(sums), chapter_text |-> "none",
     story_so_far |-> "", has_previous |-> FALSE, previous_part |-> <<>>,
     partials |-> [k \in 1..Len(sums) |-> [part |-> k, summary |-> sums[k]]],
     target_words |-> target_words]

\* The request generate_summary sends next.
NextSummaryRequest ==
    IF sum_pc = "single" THEN SingleRequest(sum_story, sum_target)
    ELSE IF Len(chunk_summaries) < Len(sum_chunks)
         THEN SegmentRequest(Len(chunk_summaries) + 1,
                             sum_chunks[Len(chunk_summaries) + 1],
                             Len(sum_chunks), sum_story, chunk_summaries, sum_target)
         ELSE CombineRequest(chunk_summaries, sum_target)

\* chunk_text's answer for the chapter: the chapter itself, or its n segments.
ChunkLists ==
    {<<"chapter">>}
    \cup {[k \in 1..n |-> <<"segment", k>>] : n \in 2..MaxSummarySegments}

IdleSummary ==
    /\ sum_words = 0
    /\ sum_story = ""
    /\ sum_chunks = <<>>
    /\ sum_target = 0
    /\ chunk_summaries = <<>>
    /\ sum_requests = <<>>
    /\ sum_responses = <<>>
    /\ sum_result = <<>>
    /\ sum_pc = "idle"

InitSummary ==
    /\ sum_words \in {50, 3000, 8000}
    /\ sum_story \in {"", "story"}
    /\ sum_chunks \in ChunkLists
    /\ sum_target = 0
    /\ chunk_summaries = <<>>
    /\ sum_requests = <<>>
    /\ sum_responses = <<>>
    /\ sum_result = <<>>
    /\ sum_pc = "call"

\* target_words, prompt_template and chunks are set; the path is chosen.
SummaryBegin ==
    /\ sum_pc = "call"
    /\ sum_target' = TargetWords(sum_words)
    /\ sum_pc' = IF Len(sum_chunks) = 1 THEN "single" ELSE "loop"
    /\ UNCHANGED <<sum_words, sum_story, sum_chunks, chunk_summaries, sum_requests,
                   sum_responses, sum_result, notSummary>>

\* return call_llm(prompt) for an unsplit chapter
SummarySingle ==
    /\ sum_pc = "single"
    /\ \E answer \in SummaryTexts :
          /\ sum_requests' = Append(sum_requests, NextSummaryRequest)
          /\ sum_responses' = Append(sum_responses, answer)
          /\ sum_result' = answer
    /\ sum_pc' = "returned"
    /\ UNCHANGED <<sum_words, sum_story, sum_chunks, sum_target, chunk_summaries, notSummary>>

\* One iteration of "for i, chunk in enumerate(chunks)".
SummarySegment ==
    /\ sum_pc = "loop"
    /\ Len(chunk_summaries) < Len(sum_chunks)
    /\ \E answer \in SummaryTexts :
          /\ sum_requests' = Append(sum_requests, NextSummaryRequest)
          /\ sum_responses' = Append(sum_responses, answer)
          /\ chunk_summaries' = Append(chunk_summaries, answer)
    /\ UNCHANGED <<sum_words, sum_story, sum_chunks, sum_target, sum_result, sum_pc,
                   notSummary>>

\* return call_llm(combine_prompt)
SummaryCombine ==
    /\ sum_pc = "loop"
    /\ Len(chunk_summaries) = Len(sum_chunks)
    /\ \E answer \in SummaryTexts :
          /\ sum_requests' = Append(sum_requests, NextSummaryRequest)
          /\ sum_responses' = Append(sum_responses, answer)
          /\ sum_result' = answer
    /\ sum_pc' = "returned"
    /\ UNCHANGED <<sum_words, sum_story, sum_chunks, sum_target, chunk_summaries, notSummary>>

\* call_llm raises (the service fails): generate_summary passes the error on.
SummaryRaises ==
    /\ sum_pc \in {"single", "loop"}
    /\ sum_requests' = Append(sum_requests, NextSummaryRequest)
    /\ sum_responses' = Append(sum_responses, <<>>)
    /\ sum_pc' = "raised"
    /\ UNCHANGED <<sum_words, sum_story, sum_chunks, sum_target, chunk_summaries,
                   sum_result, notSummary>>

NextSummary ==
    SummaryBegin \/ SummarySingle \/ SummarySegment \/ SummaryCombine \/ SummaryRaises

(***************************************************************************)
(* run_all and process_book.  A chapter is its word count; every stage is  *)
(* one step whose answer from the service is any of a few values, or an    *)
(* error.                                                                  *)
(***************************************************************************)
\* if count_words(text) < 100
SKIP_BELOW_WORDS == 100

\* A slip: the threshold is one too low.
TooShort_OffByOne(words) == words < SKIP_BELOW_WORDS - 1

\* count_words(text) < 100
TooShort(words) == words < SKIP_BELOW_WORDS

\* context = {}
EmptyContext == [k \in {} |-> k]

\* A slip: the fall-back to argument_so_far is left out.
StoryOf_StoryOnly(ctx) == Get(ctx, "story_so_far", "")

\* context.get("story_so_far") or context.get("argument_so_far", "")
StoryOf(ctx) ==
    IF GetOrNone(ctx, "story_so_far") \notin {None, ""} THEN ctx["story_so_far"]
    ELSE Get(ctx, "argument_so_far", "")

RECURSIVE JoinComma(_)
\* ", ".join(list)
JoinComma(list) ==
    IF list = <<>> THEN <<>>
    ELSE IF Len(list) = 1 THEN <<list[1]>>
         ELSE <<list[1], ", ">> \o JoinComma(Tail(list))

\* ", ".join(context.get("themes_identified", []))
ThemesOf(ctx) == JoinComma(Get(ctx, "themes_identified", <<>>))

\* A slip: the value update_context returns is dropped.
NewContext_KeepOld(current, returned) == current

\* context = update_context(current_context=context, ...)
NewContext(current, returned) == returned

\* The word counts of the chapters a book may hold: either side of the threshold.
ChapterWordCounts == {SKIP_BELOW_WORDS - 1, SKIP_BELOW_WORDS}

\* What the service may answer, stage by stage.
ExtractionValues == {"extraction A"}

SummaryValues == {"summary A", "summary B"}

AnalysisValues == {"analysis A"}

ContextValues ==
    {EmptyContext,
     [story_so_far |-> "story 1", themes_identified |-> <<"theme 1", "theme 2">>],
     [argument_so_far |-> "argument 1"]}

\* The errors a stage can raise: the call to the service fails, or (for the
\* stages that parse JSON) json.loads rejects the response.
ServiceError == "ServiceUnavailable"

ParseError == "MalformedStructuredOutput"

\* What call_llm returns: the JSON text of the dict d ...
JsonText(d) == [json |-> d]

\* ... or a text that is not JSON.
Malformed == [garbage |-> "not json"]

\* A slip: a response that does not parse silently becomes the empty dict.
json_loads_DefaultsOnFailure(response) ==
    IF "json" \in DOMAIN response THEN [ok |-> TRUE, value |-> response.json]
    ELSE [ok |-> TRUE, value |-> EmptyContext]

\* json.loads(response): the dict the text spells (ok), or JSONDecodeError.
json_loads(response) ==
    IF "json" \in DOMAIN response THEN [ok |-> TRUE, value |-> response.json]
    ELSE [ok |-> FALSE, value |-> None]

\* The record rec with one more field.
With(rec, field, val) ==
    [f \in DOMAIN rec \cup {field} |-> IF f = field THEN val ELSE rec[f]]

IdleBook ==
    /\ num_books = 0
    /\ book = 0
    /\ outcomes = <<>>
    /\ chapters = <<>>
    /\ i = 0
    /\ context = EmptyContext
    /\ story_so_far = ""
    /\ themes_so_far = <<>>
    /\ extraction = ""
    /\ summary = ""
    /\ analysis = ""
    /\ files = EmptyContext
    /\ context_file = <<>>
    /\ calls = <<>>
    /\ pc = "idle"

\* run_all has listed the book folders and is at the head of its loop.
InitBook ==
    /\ num_books \in 0..MaxBooks
    /\ book = 1
    /\ outcomes = <<>>
    /\ chapters = <<>>
    /\ i = 0
    /\ context = EmptyContext
    /\ story_so_far = ""
    /\ themes_so_far = <<>>
    /\ extraction = ""
    /\ summary = ""
    /\ analysis = ""
    /\ files = EmptyContext
    /\ context_file = <<>>
    /\ calls = <<>>
    /\ pc = "run_all"

\* run_all calls process_book for the next folder; process_book loads the
\* chapters, makes the output directory and sets context = {}.
StartBook ==
    /\ pc = "run_all"
    /\ book <= num_books
    /\ chapters' \in SeqsUpTo(ChapterWordCounts, MaxChapters)
    /\ i' = 1
    /\ context' = EmptyContext
    /\ story_so_far' = ""
    /\ themes_so_far' = <<>>
    /\ extraction' = ""
    /\ summary' = ""
    /\ analysis' = ""
    /\ files' = EmptyContext
    /\ context_file' = <<>>
    /\ calls' = <<>>
    /\ pc' = "chapter"
    /\ UNCHANGED <<num_books, book, outcomes, notBook>>

\* The loop of run_all has no folder left.
AllBooksProcessed ==
    /\ pc = "run_all"
    /\ book > num_books
    /\ pc' = "all_done"
    /\ UNCHANGED <<num_books, book, outcomes, chapters, i, context, story_so_far,
                   themes_so_far, extraction, summary, analysis, files, context_file,
                   calls, notBook>>

\* if count_words(text) < 100: continue
SkipChapter ==
    /\ pc = "chapter"
    /\ i <= Len(chapters)
    /\ TooShort(chapters[i])
    /\ i' = i + 1
    /\ UNCHANGED <<num_books, book, outcomes, chapters, context, story_so_far,
                   themes_so_far, extraction, summary, analysis, files, context_file,
                   calls, pc, notBook>>

\* The chapter is long enough: story_so_far and themes_so_far are read from context.
BeginChapter ==
    /\ pc = "chapter"
    /\ i <= Len(chapters)
    /\ ~TooShort(chapters[i])
    /\ story_so_far' = StoryOf(context)
    /\ themes_so_far' = ThemesOf(context)
    /\ pc' = "extract"
    /\ UNCHANGED <<num_books, book, outcomes, chapters, i, context, extraction, summary,
                   analysis, files, context_file, calls, notBook>>

\* A slip: the analysis is left out.
StageAfter_SkipsAnalysis(stage) ==
    IF stage = "extract" THEN "summary"
    ELSE IF stage = "summary" THEN "update"
    ELSE IF stage = "analysis" THEN "update"
    ELSE "save"

\* The statement that follows a stage of the loop body when the stage returns:
\* Step 1 extract, Step 2 summary, Step 3 analysis, Step 4 update, then the
\* output is saved.
StageAfter(stage) ==
    IF stage = "extract" THEN "summary"
    ELSE IF stage = "summary" THEN "analysis"
    ELSE IF stage = "analysis" THEN "update"
    ELSE "save"

\* The title of chapter c (the first line of its file).
TitleOf(c) == <<"title of chapter", c>>

\* A file that was opened for writing and holds nothing yet.
EmptyFile == <<>>

\* output_content: the title, "SUMMARY", the summary, "ANALYSIS", the analysis.
OutputContent(title, chapter_summary, chapter_analysis) ==
    <<title, "SUMMARY", chapter_summary, "ANALYSIS", chapter_analysis>>

\* The files with the file of chapter c holding content.
WithFile(fs, c, content) ==
    [d \in DOMAIN fs \cup {c} |-> IF d = c THEN content ELSE fs[d]]

\* What update_context's request may be answered with.
ContextResponses == {JsonText(c) : c \in ContextValues} \cup {Malformed}

\* The arguments of the call the stage at pc makes.
StageCall ==
    IF pc = "extract"
    THEN [fn |-> "extract_elements", chapter |-> i, prior_context |-> story_so_far]
    ELSE IF pc = "summary"
    THEN [fn |-> "generate_summary", chapter |-> i, extraction |-> extraction,
          story_so_far |-> story_so_far]
    ELSE IF pc = "analysis"
    THEN [fn |-> "generate_analysis", chapter |-> i, chapter_summary |-> summary,
          extraction |-> extraction, themes_so_far |-> themes_so_far]
    ELSE [fn |-> "update_context", chapter |-> i, current_context |-> context,
          chapter_summary |-> summary, extraction |-> extraction]

\* The call of the stage at pc, returning result.
Returned(result) ==
    [f \in DOMAIN StageCall \cup {"ok", "result"} |->
        IF f = "ok" THEN TRUE ELSE IF f = "result" THEN result ELSE StageCall[f]]

\* The call of the stage at pc, raising error.
Raised(error) ==
    [f \in DOMAIN StageCall \cup {"ok", "error"} |->
        IF f = "ok" THEN FALSE ELSE IF f = "error" THEN error ELSE StageCall[f]]

\* extraction = extract_elements(...)
Extract ==
    /\ pc = "extract"
    /\ \E result \in ExtractionValues :
          /\ extraction' = result
          /\ calls' = Append(calls, Returned(result))
    /\ pc' = StageAfter(pc)
    /\ UNCHANGED <<num_books, book, outcomes, chapters, i, context, story_so_far,
                   themes_so_far, summary, analysis, files, context_file, notBook>>

\* A slip: the summary step writes the summary into the rolling context.
Summarize_WritesContext ==
    /\ pc = "summary"
    /\ \E result \in SummaryValues :
          /\ summary' = result
          /\ context' = [story_so_far |-> result]
          /\ calls' = Append(calls, Returned(result))
    /\ pc' = StageAfter(pc)
    /\ UNCHANGED <<num_books, book, outcomes, chapters, i, story_so_far,
                   themes_so_far, extraction, analysis, files, context_file, notBook>>

\* summary = generate_summary(...)
Summarize ==
    /\ pc = "summary"
    /\ \E result \in SummaryValues :
          /\ summary' = result
          /\ calls' = Append(calls, Returned(result))
    /\ pc' = StageAfter(pc)
    /\ UNCHANGED <<num_books, book, outcomes, chapters, i, context, story_so_far,
                   themes_so_far, extraction, analysis, files, context_file, notBook>>

\* analysis = generate_analysis(...)
Analyze ==
    /\ pc = "analysis"
    /\ \E result \in AnalysisValues :
          /\ analysis' = result
          /\ calls' = Append(calls, Returned(result))
    /\ pc' = StageAfter(pc)
    /\ UNCHANGED <<num_books, book, outcomes, chapters, i, context, story_so_far,
                   themes_so_far, extraction, summary, files, context_file, notBook>>

\* context = update_context(...): inside, response = call_llm(...) and
\* return json.loads(response).  When json.loads raises, the assignment does
\* not happen and the error leaves process_book.
UpdateContextWith(response) ==
    /\ pc = "update"
    /\ IF json_loads(response).ok
       THEN /\ context' = NewContext(context, json_loads(response).value)
            /\ calls' = Append(calls, With(Returned(json_loads(response).value),
                                           "response", response))
            /\ pc' = StageAfter(pc)
       ELSE /\ context' = context
            /\ calls' = Append(calls, With(Raised(ParseError), "response", response))
            /\ pc' = "raised"
    /\ UNCHANGED <<num_books, book, outcomes, chapters, i, story_so_far, themes_so_far,
                   extraction, summary, analysis, files, context_file, notBook>>

UpdateContext == \E response \in ContextResponses : UpdateContextWith(response)

\* update_context when the service answers with JSON text.
UpdateContextParsed ==
    \E response \in {JsonText(c) : c \in ContextValues} : UpdateContextWith(response)

\* A stage raises: call_llm fails in any stage, json.loads fails in
\* extract_elements (in update_context: see UpdateContext).  process_book has
\* no handler, so the error leaves it.
StageRaises ==
    /\ pc \in {"extract", "summary", "analysis", "update"}
    /\ \E error \in {ServiceError} \cup (IF pc = "extract" THEN {ParseError} ELSE {}) :
          calls' = Append(calls, Raised(error))
    /\ pc' = "raised"
    /\ UNCHANGED <<num_books, book, outcomes, chapters, i, context, story_so_far,
                   themes_so_far, extraction, summary, analysis, files, context_file,
                   notBook>>

\* open(output_path, "w"): the chapter's output file is there and empty.  (The
\* chapters of a book are taken to have output file names of their own.)
OpenOutput ==
    /\ pc = "save"
    /\ files' = WithFile(files, i, EmptyFile)
    /\ pc' = "write"
    /\ UNCHANGED <<num_books, book, outcomes, chapters, i, context, story_so_far,
                   themes_so_far, extraction, summary, analysis, context_file, calls,
                   notBook>>

\* A slip: the context is dumped to book_context.json inside the loop, once
\* per chapter.
SaveChapter_DumpsContext ==
    /\ pc = "write"
    /\ files' = WithFile(files, i, OutputContent(TitleOf(i), summary, analysis))
    /\ context_file' = Append(context_file, context)
    /\ i' = i + 1
    /\ pc' = "chapter"
    /\ UNCHANGED <<num_books, book, outcomes, chapters, context, story_so_far,
                   themes_so_far, extraction, summary, analysis, calls, notBook>>

\* f.write(output_content) and the file is closed; the loop goes on.
SaveChapter ==
    /\ pc = "write"
    /\ files' = WithFile(files, i, OutputContent(TitleOf(i), summary, analysis))
    /\ i' = i + 1
    /\ pc' = "chapter"
    /\ UNCHANGED <<num_books, book, outcomes, chapters, context, story_so_far,
                   themes_so_far, extraction, summary, analysis, context_file, calls,
                   notBook>>

\* The run is interrupted (KeyboardInterrupt) while a chapter is in work.
\* "except Exception" in run_all does not catch it: the program ends.
Interrupt ==
    /\ pc \in {"extract", "summary", "analysis", "update", "save", "write"}
    /\ pc' = "interrupted"
    /\ UNCHANGED <<num_books, book, outcomes, chapters, i, context, story_so_far,
                   themes_so_far, extraction, summary, analysis, files, context_file,
                   calls, notBook>>

\* After the loop: json.dump(context, f) into book_context.json; process_book returns.
SaveFinalContext ==
    /\ pc = "chapter"
    /\ i > Len(chapters)
    /\ context_file' = Append(context_file, context)
    /\ pc' = "done"
    /\ UNCHANGED <<num_books, book, outcomes, chapters, i, context, story_so_far,
                   themes_so_far, extraction, summary, analysis, files, calls, notBook>>

\* process_book returned to run_all, which takes the next folder.
BookDone ==
    /\ pc = "done"
    /\ outcomes' = Append(outcomes, "done")
    /\ book' = book + 1
    /\ pc' = "run_all"
    /\ UNCHANGED <<num_books, chapters, i, context, story_so_far, themes_so_far,
                   extraction, summary, analysis, files, context_file, calls, notBook>>

\* A slip: run_all has no handler; the error of one book ends the run.
CatchError_EndsRun ==
    /\ pc = "raised"
    /\ outcomes' = Append(outcomes, "raised")
    /\ book' = book
    /\ pc' = "all_done"
    /\ UNCHANGED <<num_books, chapters, i, context, story_so_far, themes_so_far,
                   extraction, summary, analysis, files, context_file, calls, notBook>>

\* except Exception in run_all: the error is printed and the loop continues.
CatchError ==
    /\ pc = "raised"
    /\ outcomes' = Append(outcomes, "raised")
    /\ book' = book + 1
    /\ pc' = "run_all"
    /\ UNCHANGED <<num_books, chapters, i, context, story_so_far, themes_so_far,
                   extraction, summary, analysis, files, context_file, calls, notBook>>

Next ==
    \/ StartBook
    \/ AllBooksProcessed
    \/ SkipChapter
    \/ BeginChapter
    \/ Extract
    \/ Summarize
    \/ Analyze
    \/ UpdateContext
    \/ StageRaises
    \/ OpenOutput
    \/ SaveChapter
    \/ Interrupt
    \/ SaveFinalContext
    \/ BookDone
    \/ CatchError

(***************************************************************************)
(* extract_elements.  One request to the service per segment; every        *)
(* response goes through json.loads, which nothing guards.                 *)
(***************************************************************************)
RECURSIVE MergeFrom(_, _, _, _, _)
\* The values the loop of merge_extractions can leave in merged, from
\* extractions[k] on (list(set(...)) may give any order).
MergeFrom(exts, k, bt, m, seenKeys) ==
    IF k > Len(exts) THEN {m}
    ELSE UNION {LET r == IF bt = "fiction"
                         THEN MergeFiction(m, seenKeys, exts[k], order)
                         ELSE MergeNonfiction(m, seenKeys, exts[k], order)
                IN  MergeFrom(exts, k + 1, bt, r.merged, r.seen) :
                order \in SetOrders(bt, exts[k])}

\* The values merge_extractions(extractions, book_type) can return.
merge_extractions(exts, bt) == MergeFrom(exts, 1, bt, EmptyMerged(bt), {})

\* The dicts the service may spell in answer to an extraction request: one
\* with every field of the book type, and the empty dict.
ExtractDicts(bt) ==
    {MkExt(bt,
           Present(<<[f \in {KeyName(bt), "description"} |->
                        IF f = KeyName(bt) THEN "Poirot" ELSE "d1"]>>),
           Present(<<"x">>), Present(<<"y", "y">>), Present("dark")),
     MkExt(bt, Absent, Absent, Absent, [present |-> FALSE, val |-> ""])}

ExtractResponses(bt) == {JsonText(d) : d \in ExtractDicts(bt)} \cup {Malformed}

\* prior_context as the prompt of an unsplit chapter carries it:
\* prior_context or "This is the first chapter."
SingleExtractRequest(prior) ==
    [part |-> 0, of |-> 1, chapter_text |-> "chapter",
     prior_context |-> <<StoryOrFirst(prior)>>]

\* The prompt for chunks[idx]: chunk_context is prior_context followed by the
\* marker "[Processing part idx of count of this chapter]".
SegmentExtractRequest(idx, chunk, count, prior) ==
    [part |-> idx, of |-> count, chapter_text |-> chunk,
     prior_context |-> <<prior, "[Processing part", idx, "of", count>>]

\* The request extract_elements sends next.
NextExtractRequest ==
    IF ext_pc = "single" THEN SingleExtractRequest(ext_prior)
    ELSE SegmentExtractRequest(Len(all_extractions) + 1,
                               ext_chunks[Len(all_extractions) + 1],
                               Len(ext_chunks), ext_prior)

\* No value yet.
NoResult == [unset |-> TRUE]

IdleExtract ==
    /\ ext_book_type = "none"
    /\ ext_prior = ""
    /\ ext_chunks = <<>>
    /\ all_extractions = <<>>
    /\ ext_requests = <<>>
    /\ ext_responses = <<>>
    /\ ext_result = NoResult
    /\ ext_pc = "idle"

InitExtract ==
    /\ ext_book_type \in {"fiction", "nonfiction"}
    /\ ext_prior \in {"", "story"}
    /\ ext_chunks \in ChunkLists
    /\ all_extractions = <<>>
    /\ ext_requests = <<>>
    /\ ext_responses = <<>>
    /\ ext_result = NoResult
    /\ ext_pc = "call"

\* prompt_template and chunks are set; the path is chosen.
ExtractBegin ==
    /\ ext_pc = "call"
    /\ ext_pc' = IF Len(ext_chunks) = 1 THEN "single" ELSE "loop"
    /\ UNCHANGED <<ext_book_type, ext_prior, ext_chunks, all_extractions, ext_requests,
                   ext_responses, ext_result, notExtract>>

\* response = call_llm(prompt, expect_json=True); return json.loads(response)
ExtractSingle ==
    /\ ext_pc = "single"
    /\ \E response \in ExtractResponses(ext_book_type) :
          /\ ext_requests' = Append(ext_requests, NextExtractRequest)
          /\ ext_responses' = Append(ext_responses, response)
          /\ IF json_loads(response).ok
             THEN /\ ext_result' = json_loads(response).value
                  /\ ext_pc' = "returned"
             ELSE /\ ext_result' = ext_result
                  /\ ext_pc' = "raised"
    /\ UNCHANGED <<ext_book_type, ext_prior, ext_chunks, all_extractions, notExtract>>

\* One iteration of "for i, chunk in enumerate(chunks)":
\* all_extractions.append(json.loads(response))
ExtractSegment ==
    /\ ext_pc = "loop"
    /\ Len(all_extractions) < Len(ext_chunks)
    /\ \E response \in ExtractResponses(ext_book_type) :
          /\ ext_requests' = Append(ext_requests, NextExtractRequest)
          /\ ext_responses' = Append(ext_responses, response)
          /\ IF json_loads(response).ok
             THEN /\ all_extractions' = Append(all_extractions, json_loads(response).value)
                  /\ ext_pc' = ext_pc
             ELSE /\ all_extractions' = all_extractions
                  /\ ext_pc' = "raised"
    /\ UNCHANGED <<ext_book_type, ext_prior, ext_chunks, ext_result, notExtract>>

\* return merge_extractions(all_extractions, book_type)
ExtractMerge ==
    /\ ext_pc = "loop"
    /\ Len(all_extractions) = Len(ext_chunks)
    /\ ext_result' \in merge_extractions(all_extractions, ext_book_type)
    /\ ext_pc' = "returned"
    /\ UNCHANGED <<ext_book_type, ext_prior, ext_chunks, all_extractions, ext_requests,
                   ext_responses, notExtract>>

\* call_llm raises (the service fails): extract_elements passes the error on.
ExtractRaises ==
    /\ \/ ext_pc = "single"
       \/ ext_pc = "loop" /\ Len(all_extractions) < Len(ext_chunks)
    /\ ext_requests' = Append(ext_requests, NextExtractRequest)
    /\ ext_responses' = Append(ext_responses, [raised |-> ServiceError])
    /\ ext_pc' = "raised"
    /\ UNCHANGED <<ext_book_type, ext_prior, ext_chunks, all_extractions, ext_result,
                   notExtract>>

NextExtract ==
    ExtractBegin \/ ExtractSingle \/ ExtractSegment \/ ExtractMerge \/ ExtractRaises

(***************************************************************************)
(* The specifications.                                                     *)
(***************************************************************************)
Init == InitBook /\ IdleChunk /\ IdleMerge /\ IdleTarget /\ IdleSummary /\ IdleExtract

Spec == Init /\ [][Next]_vars

\* The run in which every call to the service returns and every structured
\* response parses, and which is not interrupted.  The program is one thread
\* that keeps running: a step that can be taken is taken.
NextParsed ==
    \/ StartBook
    \/ AllBooksProcessed
    \/ SkipChapter
    \/ BeginChapter
    \/ Extract
    \/ Summarize
    \/ Analyze
    \/ UpdateContextParsed
    \/ OpenOutput
    \/ SaveChapter
    \/ SaveFinalContext
    \/ BookDone

SpecParsed == Init /\ [][NextParsed]_vars /\ WF_vars(NextParsed)

InitSpecMerge ==
    InitMerge /\ IdleChunk /\ IdleTarget /\ IdleSummary /\ IdleExtract /\ IdleBook

SpecMerge == InitSpecMerge /\ [][NextMerge]_vars

InitSpecChunk ==
    InitChunk /\ IdleMerge /\ IdleTarget /\ IdleSummary /\ IdleExtract /\ IdleBook

SpecChunk == InitSpecChunk /\ [][NextChunk]_vars

InitSpecTarget ==
    InitTarget /\ IdleChunk /\ IdleMerge /\ IdleSummary /\ IdleExtract /\ IdleBook

SpecTarget == InitSpecTarget /\ [][NextTarget]_vars

InitSpecSummary ==
    InitSummary /\ IdleChunk /\ IdleMerge /\ IdleTarget /\ IdleExtract /\ IdleBook

SpecSummary == InitSpecSummary /\ [][NextSummary]_vars

InitSpecExtract ==
    InitExtract /\ IdleChunk /\ IdleMerge /\ IdleTarget /\ IdleSummary /\ IdleBook

SpecExtract == InitSpecExtract /\ [][NextExtract]_vars

(***************************************************************************)
(* Properties of chunk_text, checked under SpecChunk.                      *)
(***************************************************************************)
ChunkReturned == chunk_pc = "returned"

\* chunk_text took its splitting path.
ChunkWasSplit == ChunkReturned /\ count_tokens(text) > max_tokens

RECURSIVE Flatten(_)
\* The concatenation of a list of lists.
Flatten(lists) == IF lists = <<>> THEN <<>> ELSE lists[1] \o Flatten(Tail(lists))

RECURSIVE SumTokens(_)
\* The summed token count of a list of paragraphs.
SumTokens(paras) ==
    IF paras = <<>> THEN 0 ELSE count_tokens(paras[1]) + SumTokens(Tail(paras))

\* C3: a text whose token count is at most max_tokens comes back as exactly one
\* segment, and that segment is the text itself.
C3_WholeTextWhenWithinLimit ==
    (ChunkReturned /\ count_tokens(text) <= max_tokens) => chunks = <<text>>

\* C3's case: a text of several paragraphs that is within the limit.
C3_Witness ==
    /\ ChunkReturned
    /\ count_tokens(text) <= max_tokens
    /\ Len(SplitParagraphs(text)) > 1
    /\ chunks = <<text>>

\* C4: joining the returned segments with the blank-line separator gives the
\* text back, and on the splitting path the paragraphs of the segments, read in
\* order, are the paragraphs of the text: none dropped, doubled or moved.
C4_JoinReconstructsText ==
    ChunkReturned =>
        /\ JoinParagraphs(chunks) = text
        /\ ChunkWasSplit =>
              /\ Flatten(para_groups) = SplitParagraphs(text)
              /\ \A g \in 1..Len(chunks) : chunks[g] = JoinParagraphs(para_groups[g])

\* C4's case: a text split into several segments, one of them holding two paragraphs.
C4_Witness ==
    /\ ChunkWasSplit
    /\ Len(chunks) > 1
    /\ \E g \in 1..Len(para_groups) : Len(para_groups[g]) > 1
    /\ JoinParagraphs(chunks) = text

\* C5, as claimed: when chunk_text splits, every returned segment is non-empty,
\* and every segment of more than one paragraph has a summed paragraph token
\* count of at most max_tokens.
C5_SegmentsNonEmptyAndBounded ==
    ChunkWasSplit =>
        /\ \A g \in 1..Len(chunks) : chunks[g] # <<>>
        /\ \A g \in 1..Len(para_groups) :
              Len(para_groups[g]) > 1 => SumTokens(para_groups[g]) <= max_tokens

\* What chunk_text does guarantee on its splitting path: every segment holds at
\* least one paragraph, a segment is the empty text only when it is a single
\* empty paragraph, and only a single-paragraph segment exceeds max_tokens.
ChunkGroupsBounded ==
    ChunkWasSplit =>
        /\ Len(chunks) = Len(para_groups)
        /\ \A g \in 1..Len(para_groups) :
              /\ Len(para_groups[g]) >= 1
              /\ chunks[g] = <<>> => para_groups[g] = << <<>> >>
              /\ Len(para_groups[g]) > 1 => SumTokens(para_groups[g]) <= max_tokens

(***************************************************************************)
(* Properties of merge_extractions, checked under SpecMerge.               *)
(***************************************************************************)
MergeReturned == merge_pc = "returned"

\* Field f over the segment records, in segment order.
FieldOverSegments(f) ==
    Flatten([s \in 1..Len(extractions) |-> Get(extractions[s], f, <<>>)])

\* The positions of a list whose key no earlier position holds.
FirstPositions(list, key) ==
    {p \in 1..Len(list) :
        \A q \in 1..(p - 1) : GetOrNone(list[q], key) # GetOrNone(list[p], key)}

RECURSIVE Restrict(_, _, _)
\* The entries of list at the positions in keep, from position p on, in order.
Restrict(list, keep, p) ==
    IF p > Len(list) THEN <<>>
    ELSE (IF p \in keep THEN <<list[p]>> ELSE <<>>) \o Restrict(list, keep, p + 1)

\* C6: of the entries that share a character name (concept term), the merged
\* record keeps the earliest one unchanged and drops every later one.
C6_FirstSeenEntryWins ==
    MergeReturned =>
        LET all == FieldOverSegments(KeyedField(book_type))
        IN  merged[KeyedField(book_type)]
                = Restrict(all, FirstPositions(all, KeyName(book_type)), 1)

\* C6's case: two segments give different entries for one key.
C6_Witness ==
    /\ MergeReturned
    /\ \E s1, s2 \in 1..Len(extractions) :
          /\ s1 < s2
          /\ \E e1 \in Elems(Get(extractions[s1], KeyedField(book_type), <<>>)),
                e2 \in Elems(Get(extractions[s2], KeyedField(book_type), <<>>)) :
                /\ e1 # e2
                /\ KeyName(book_type) \in DOMAIN e1
                /\ GetOrNone(e1, KeyName(book_type)) = GetOrNone(e2, KeyName(book_type))
                /\ e1 \in Elems(merged[KeyedField(book_type)])
                /\ e2 \notin Elems(merged[KeyedField(book_type)])

\* C7: every plain list field of the merged record is the concatenation of that
\* field over the segment records, in segment order, duplicates kept.
C7_PlainListsConcatenated ==
    MergeReturned =>
        \A f \in PlainFields(book_type) : merged[f] = FieldOverSegments(f)

\* C7's case: two segments list the same value in a plain field, and both stay.
C7_Witness ==
    /\ MergeReturned
    /\ Len(extractions) > 1
    /\ \E f \in PlainFields(book_type) :
          /\ Len(merged[f]) > Cardinality(Elems(merged[f]))
          /\ Cardinality(Elems(merged[f])) > 1
          /\ \E s1, s2 \in 1..Len(extractions) :
                /\ s1 # s2
                /\ Elems(Get(extractions[s1], f, <<>>))
                       \cap Elems(Get(extractions[s2], f, <<>>)) # {}

\* The segments whose record supplies a non-empty tone_mood.
TonedSegments ==
    {s \in 1..Len(extractions) : Get(extractions[s], "tone_mood", "") # ""}

\* C8: for fiction the merged tone_mood is that of the last segment with a
\* non-empty tone_mood, and the empty string when there is none.
C8_LastNonEmptyToneWins ==
    (MergeReturned /\ book_type = "fiction") =>
        merged.tone_mood =
            IF TonedSegments = {} THEN ""
            ELSE extractions[CHOOSE s \in TonedSegments :
                                \A r \in TonedSegments : r <= s].tone_mood

\* C8's case: a segment with an empty or missing tone_mood follows one with a tone.
C8_Witness ==
    /\ MergeReturned
    /\ book_type = "fiction"
    /\ \E s1, s2 \in 1..Len(extractions) :
          /\ s1 < s2
          /\ s1 \in TonedSegments
          /\ \A r \in s2..Len(extractions) : r \notin TonedSegments
          /\ merged.tone_mood = extractions[s1].tone_mood

(***************************************************************************)
(* Properties of the target word count, checked under SpecTarget.          *)
(***************************************************************************)
\* C9: the target is never below 200 words, and of two chapters the one with
\* at least as many words gets at least as large a target.
C9_TargetMonotonicWithFloor ==
    \A a, b \in 1..Len(target_calls) :
        /\ target_calls[a].target_words >= 200
        /\ target_calls[a].original_words <= target_calls[b].original_words
              => target_calls[a].target_words <= target_calls[b].target_words

\* C9's case: a 50-word chapter held at the floor, then a chapter above it.
C9_Witness ==
    /\ Len(target_calls) = 2
    /\ target_calls[1].original_words = 50
    /\ target_calls[1].target_words = 200
    /\ target_calls[2].original_words > target_calls[1].original_words
    /\ target_calls[2].target_words > 200

(***************************************************************************)
(* Properties of generate_summary, checked under SpecSummary.              *)
(***************************************************************************)
SummaryReturned == sum_pc = "returned"

\* C10: for a chapter of n > 1 segments generate_summary sends n segment
\* requests in segment order and then one combination request, which carries
\* the n partial summaries in order and the whole target_words; what the
\* combination request answers is the value returned.
C10_CombineAfterSegments ==
    (SummaryReturned /\ Len(sum_chunks) > 1) =>
        LET n == Len(sum_chunks)
        IN  /\ Len(sum_requests) = n + 1
            /\ \A k \in 1..n :
                  /\ sum_requests[k].kind = "summary"
                  /\ sum_requests[k].part = k
                  /\ sum_requests[k].chapter_text = sum_chunks[k]
            /\ sum_requests[n + 1].kind = "combine"
            /\ sum_requests[n + 1].partials
                   = [k \in 1..n |-> [part |-> k, summary |-> sum_responses[k]]]
            /\ sum_requests[n + 1].target_words = Max(200, (sum_words * 13) \div 100)
            /\ sum_result = sum_responses[n + 1]

\* C10's case: three segments with different partial summaries, a target
\* above the floor, each segment asked for a third of it.
C10_Witness ==
    /\ SummaryReturned
    /\ Len(sum_chunks) = 3
    /\ sum_words = 3000
    /\ Len(sum_requests) = 4
    /\ sum_responses[1] # sum_responses[2]
    /\ sum_requests[1].target_words = 130
    /\ sum_requests[4].target_words = 390
    /\ sum_result # sum_responses[3]

(***************************************************************************)
(* Properties of process_book, checked under Spec.                         *)
(***************************************************************************)
\* The update_context calls made for the book so far, in order.
UpdateCalls == SelectSeq(calls, LAMBDA c : c.fn = "update_context")

\* Those of them that returned.
ReturnedUpdates == SelectSeq(UpdateCalls, LAMBDA c : c.ok)

\* The chapters of the book that are not skipped.
Processed == {c \in 1..Len(chapters) : chapters[c] >= 100}

\* C1: each update_context call is made for a non-skipped chapter and is handed
\* the value the update_context call of the nearest earlier non-skipped chapter
\* returned ({} when there is none); the rolling context is always the value
\* the latest update_context call returned ({} before the first).
C1_ContextThreaded ==
    LET u == UpdateCalls
    IN  /\ \A j \in 1..Len(u) :
              /\ u[j].chapter \in Processed
              /\ j = 1 =>
                    /\ u[j].current_context = EmptyContext
                    /\ \A c \in Processed : c >= u[j].chapter
              /\ j > 1 =>
                    /\ u[j - 1].ok
                    /\ u[j].current_context = u[j - 1].result
                    /\ u[j - 1].chapter < u[j].chapter
                    /\ \A c \in Processed : c <= u[j - 1].chapter \/ c >= u[j].chapter
        /\ context = IF ReturnedUpdates = <<>> THEN EmptyContext
                      ELSE ReturnedUpdates[Len(ReturnedUpdates)].result

\* C1's case: the third chapter's update is handed what the first chapter's
\* update returned, the second chapter being skipped, and replaces it.
C1_Witness ==
    /\ pc = "save"
    /\ i = 3
    /\ chapters[2] < 100
    /\ Len(UpdateCalls) = 2
    /\ UpdateCalls[1].result # EmptyContext
    /\ UpdateCalls[2].current_context = UpdateCalls[1].result
    /\ UpdateCalls[2].result # UpdateCalls[1].result
    /\ context = UpdateCalls[2].result

\* C2: no stage is ever called and no output is written for a chapter of fewer
\* than 100 words, and the step that passes such a chapter changes neither the
\* rolling context nor anything written.
C2_SkippedChapterHasNoEffect ==
    /\ [](/\ \A c \in 1..Len(calls) : chapters[calls[c].chapter] >= 100
          /\ \A c \in DOMAIN files : chapters[c] >= 100)
    /\ [][(pc = "chapter" /\ i <= Len(chapters) /\ chapters[i] < 100)
             => /\ context' = context
                /\ calls' = calls
                /\ files' = files
                /\ context_file' = context_file
                /\ i' = i + 1
                /\ pc' = "chapter"]_vars

\* C2's case: a short chapter was passed between two long ones; the third
\* chapter starts with the context the first one left.
C2_Witness ==
    /\ pc = "extract"
    /\ i = 3
    /\ chapters[2] < 100
    /\ context # EmptyContext
    /\ Len(UpdateCalls) = 1
    /\ context = UpdateCalls[1].result
    /\ 1 \in DOMAIN files
    /\ 2 \notin DOMAIN files

(***************************************************************************)
(* Properties of extract_elements, checked under SpecExtract.              *)
(***************************************************************************)
\* C14, as claimed: a response to an extraction request that cannot be parsed
\* does not make extract_elements raise; on the multi-segment path the
\* segment's extraction is the empty record and the loop goes on to the merge.
C14_ParseFailureGivesEmptyRecord ==
    \A k \in 1..Len(ext_responses) :
        ext_responses[k] = Malformed =>
            /\ ext_pc # "raised"
            /\ Len(ext_chunks) > 1 =>
                  /\ Len(all_extractions) >= k
                  /\ all_extractions[k] = EmptyContext

\* What extract_elements does with such a response: json.loads raises, the
\* error leaves extract_elements at once, nothing is returned and no later
\* segment is asked for.
ExtractParseFailureRaises ==
    \A k \in 1..Len(ext_responses) :
        ext_responses[k] = Malformed =>
            /\ ext_pc = "raised"
            /\ k = Len(ext_responses)
            /\ ext_result = NoResult
            /\ Len(all_extractions) = k - 1

(***************************************************************************)
(* Further properties of process_book, checked under Spec (C13 under       *)
(* SpecParsed).                                                            *)
(***************************************************************************)
\* The stage calls made for chapter c, in order.
CallsOf(c) == SelectSeq(calls, LAMBDA x : x.chapter = c)

\* The stages of a chapter, in the order of the claim.
StageOrder ==
    <<"extract_elements", "generate_summary", "generate_analysis", "update_context">>

\* The four stages of chapter c were called in order and all returned.
StagesCompleted(c) ==
    /\ Len(CallsOf(c)) = 4
    /\ \A k \in 1..4 : CallsOf(c)[k].fn = StageOrder[k] /\ CallsOf(c)[k].ok

\* The output file of chapter c is complete: it holds the summary and the
\* analysis the chapter's stages returned.
FileComplete(c) ==
    /\ c \in DOMAIN files
    /\ StagesCompleted(c)
    /\ files[c] = OutputContent(TitleOf(c), CallsOf(c)[2].result, CallsOf(c)[3].result)

\* The number of stage calls the chapter in work has made when the program is at pc.
CallsBefore ==
    [extract |-> 0, summary |-> 1, analysis |-> 2, update |-> 3, save |-> 4, write |-> 4]

\* C11: the stage calls of every chapter are, in order, extract, summarize,
\* analyze, context update, each made once and only after the one before it
\* returned; the output is written only after all four; a skipped chapter has
\* no stage call; and when any stage of a chapter is called, every earlier
\* non-skipped chapter has its complete output written.
C11_StagesInOrder ==
    /\ \A c \in 1..Len(chapters) :
          /\ Len(CallsOf(c)) <= 4
          /\ \A k \in 1..Len(CallsOf(c)) :
                /\ CallsOf(c)[k].fn = StageOrder[k]
                /\ k < Len(CallsOf(c)) => CallsOf(c)[k].ok
          /\ c \in DOMAIN files => StagesCompleted(c)
          /\ c \notin Processed => CallsOf(c) = <<>>
    /\ pc \in DOMAIN CallsBefore =>
          /\ Len(CallsOf(i)) = CallsBefore[pc]
          /\ \A k \in 1..Len(CallsOf(i)) : CallsOf(i)[k].ok
          /\ pc # "write" => i \notin DOMAIN files
    /\ \A k \in 1..Len(calls) :
          /\ k > 1 => calls[k - 1].chapter <= calls[k].chapter
          /\ \A c \in Processed : c < calls[k].chapter => FileComplete(c)

\* C11's case: two chapters went through the four stages and the output, one
\* after the other, and the third chapter is at its first stage.
C11_Witness ==
    /\ pc = "extract"
    /\ i = 3
    /\ Len(calls) = 8
    /\ StagesCompleted(1)
    /\ StagesCompleted(2)
    /\ calls[4].chapter = 1
    /\ calls[5].chapter = 2
    /\ FileComplete(1)
    /\ FileComplete(2)

\* C12, as claimed: a chapter has an output file only when its four stages
\* completed; when a stage failed or the run was interrupted in the middle of
\* a chapter, nothing of that chapter is in the output directory; and the
\* outputs of the chapters before the one in work are as they were written.
C12_OutputOnlyWhenChapterComplete ==
    /\ \A c \in DOMAIN files : StagesCompleted(c)
    /\ pc \in {"raised", "interrupted"} => i \notin DOMAIN files
    /\ \A c \in DOMAIN files : c < i => FileComplete(c)

\* What process_book does guarantee: the output file is opened only after the
\* four stages completed, a failing stage leaves nothing of its chapter, the
\* outputs of earlier chapters stay as written, and a file that is there but
\* not complete is one the run was cut off in while writing it.
OutputOnlyAfterStages ==
    /\ \A c \in DOMAIN files : StagesCompleted(c)
    /\ pc = "raised" => i \notin DOMAIN files
    /\ \A c \in DOMAIN files : c < i => FileComplete(c)
    /\ \A c \in DOMAIN files :
          ~FileComplete(c) => c = i /\ files[c] = EmptyFile /\ pc \in {"write", "interrupted"}

\* The context the latest returned update_context call gave ({} when none).
LatestContext ==
    IF ReturnedUpdates = <<>> THEN EmptyContext
    ELSE ReturnedUpdates[Len(ReturnedUpdates)].result

\* process_book is running.
InBook == pc \in {"chapter", "extract", "summary", "analysis", "update", "save", "write"}

\* The terminal state of process_book.
BookTerminal ==
    /\ pc = "done"
    /\ i = Len(chapters) + 1
    /\ DOMAIN files = Processed
    /\ \A c \in Processed : FileComplete(c)
    /\ context_file = <<LatestContext>>

\* C13: when every call to the service returns a response that parses, a run
\* of process_book that has begun reaches its terminal state: every chapter
\* has its output written or was skipped, and book_context.json was written
\* once, after the last chapter and not before, with the context the last
\* non-skipped chapter's update returned.
C13_RunReachesTerminalState ==
    /\ [](InBook => <>BookTerminal)
    /\ [](pc = "done" => BookTerminal)
    /\ [](InBook => context_file = <<>>)

\* C13's case: a book of three chapters, the last one short, is done; the
\* context written is what the second chapter's update returned.
C13_Witness ==
    /\ BookTerminal
    /\ Len(chapters) = 3
    /\ Processed = {1, 2}
    /\ Len(ReturnedUpdates) = 2
    /\ ReturnedUpdates[2].result # EmptyContext
    /\ ReturnedUpdates[2].result # ReturnedUpdates[1].result
    /\ context_file = <<ReturnedUpdates[2].result>>

\* The update_context call c got a response, and it does not parse.
GotUnparseable(c) ==
    c.fn = "update_context" /\ "response" \in DOMAIN c /\ c.response = Malformed

\* C15: an update_context call whose response does not parse raises the parse
\* error; it is the last stage call made for the book, no output is written
\* for its chapter, and the rolling context is still the one the call was
\* handed.
C15_UnparseableUpdateFailsLoudly ==
    \A k \in 1..Len(calls) :
        GotUnparseable(calls[k]) =>
            /\ ~calls[k].ok
            /\ calls[k].error = ParseError
            /\ k = Len(calls)
            /\ pc \in {"raised", "run_all", "all_done"}
            /\ context = calls[k].current_context
            /\ context = LatestContext
            /\ calls[k].chapter \notin DOMAIN files

\* C15's case: the second chapter's update is answered with text that does not
\* parse; the context stays what the first chapter's update returned.
C15_Witness ==
    /\ pc = "raised"
    /\ i = 2
    /\ Len(calls) = 8
    /\ GotUnparseable(calls[8])
    /\ ~calls[8].ok
    /\ context # EmptyContext
    /\ context = calls[4].result
    /\ FileComplete(1)

\* json.dumps(context) as a text: the keys with their values, in a fixed order.
ContextText(ctx) ==
    (IF "story_so_far" \in DOMAIN ctx THEN <<"story_so_far", ctx.story_so_far>> ELSE <<>>)
    \o (IF "argument_so_far" \in DOMAIN ctx
        THEN <<"argument_so_far", ctx.argument_so_far>> ELSE <<>>)
    \o (IF "themes_identified" \in DOMAIN ctx
        THEN <<"themes_identified">> \o ctx.themes_identified ELSE <<>>)

\* The context in force when calls[k] was made: what the latest update_context
\* call before it returned ({} when there is none).
ContextBefore(k) ==
    LET earlier == SelectSeq(SubSeq(calls, 1, k - 1),
                             LAMBDA x : x.fn = "update_context" /\ x.ok)
    IN  IF earlier = <<>> THEN EmptyContext ELSE earlier[Len(earlier)].result

\* The extract_elements calls made after an update_context call returned.
LaterExtracts ==
    {k \in 1..Len(calls) :
        /\ calls[k].fn = "extract_elements"
        /\ \E j \in 1..(k - 1) : calls[j].fn = "update_context" /\ calls[j].ok}

\* C16, as claimed: the prior_context handed to the extraction of a later
\* chapter is the whole context the previous chapter's update returned.
C16_PriorContextIsWholeContext ==
    \A k \in LaterExtracts : <<calls[k].prior_context>> = ContextText(ContextBefore(k))

\* The story entry of a context: story_so_far when it is there and not empty,
\* else argument_so_far, else the empty string.
StoryEntry(ctx) ==
    IF "story_so_far" \in DOMAIN ctx /\ ctx.story_so_far # "" THEN ctx.story_so_far
    ELSE IF "argument_so_far" \in DOMAIN ctx THEN ctx.argument_so_far
    ELSE ""

\* C16, amended: the prior_context handed to the extraction of a chapter is
\* the story entry of the context the nearest earlier non-skipped chapter's
\* update returned (the empty string for the first such chapter), and nothing
\* else of that context.
C16_PriorContextIsStoryEntry ==
    \A k \in 1..Len(calls) :
        calls[k].fn = "extract_elements" =>
            calls[k].prior_context = StoryEntry(ContextBefore(k))

\* C16's case: the first chapter's update returned a context with a story and
\* themes; the extraction of the second chapter is handed the story alone.
C16_Witness ==
    /\ Len(calls) >= 5
    /\ calls[4].fn = "update_context"
    /\ calls[4].ok
    /\ "themes_identified" \in DOMAIN calls[4].result
    /\ calls[5].fn = "extract_elements"
    /\ calls[5].prior_context = calls[4].result.story_so_far
    /\ calls[5].prior_context # ""

(***************************************************************************)
(* Further properties of merge_extractions, checked under SpecMerge.       *)
(***************************************************************************)
\* How often v is in list.
Count(list, v) == Cardinality({p \in 1..Len(list) : list[p] = v})

\* C17: in the merged record no two entries of the key-identified list
\* (characters, key_concepts) have the same key, an entry without the key
\* counting as having the key None; this holds after every iteration.
C17_MergedKeysUnique ==
    merge_pc \in {"loop", "returned"} =>
        LET list == merged[KeyedField(book_type)]
        IN  \A p, q \in 1..Len(list) :
                p # q => GetOrNone(list[p], KeyName(book_type))
                             # GetOrNone(list[q], KeyName(book_type))

\* C17's case: one segment lists two entries under one key, another lists two
\* entries without the key; the merged list keeps one of each.
C17_Witness ==
    /\ MergeReturned
    /\ \E s1, s2 \in 1..Len(extractions) :
          LET l1 == Get(extractions[s1], KeyedField(book_type), <<>>)
              l2 == Get(extractions[s2], KeyedField(book_type), <<>>)
          IN  /\ Len(l1) = 2
              /\ l1[1] # l1[2]
              /\ KeyName(book_type) \in DOMAIN l1[1]
              /\ GetOrNone(l1[1], KeyName(book_type)) = GetOrNone(l1[2], KeyName(book_type))
              /\ Len(l2) = 2
              /\ KeyName(book_type) \notin DOMAIN l2[1]
              /\ KeyName(book_type) \notin DOMAIN l2[2]
    /\ Len(merged[KeyedField(book_type)]) = 2

\* The segments whose record lists v in field f.
SegmentsListing(f, v) ==
    {s \in 1..Len(extractions) : v \in Elems(Get(extractions[s], f, <<>>))}

\* C18: a value is in a merged set-like field once for every segment whose
\* record lists it, however often that record repeats it.
C18_SetFieldsOncePerSegment ==
    MergeReturned =>
        \A f \in SetFields(book_type) :
            \A v \in Elems(merged[f]) \cup Elems(FieldOverSegments(f)) :
                Count(merged[f], v) = Cardinality(SegmentsListing(f, v))

\* C18's case: a value that one segment lists twice and another once is in the
\* merged field twice.
C18_Witness ==
    /\ MergeReturned
    /\ \E f \in SetFields(book_type) :
          \E v \in Elems(merged[f]) :
              \E s1, s2 \in SegmentsListing(f, v) :
                  /\ s1 # s2
                  /\ Count(extractions[s1][f], v) = 2
                  /\ Cardinality(SegmentsListing(f, v)) = 2
                  /\ Count(merged[f], v) = 2
                  /\ Count(FieldOverSegments(f), v) = 3

\* The values of a list in the order of their first appearance, each once.
FirstSeenOrder(list) ==
    Restrict(list, {p \in 1..Len(list) : \A q \in 1..(p - 1) : list[q] # list[p]}, 1)

\* C19, as claimed: every list field of the merged record is in first-seen
\* order, the set-like fields included: segment by segment, and within a
\* segment in the order in which its record first lists each value.
C19_ListsInFirstSeenOrder ==
    MergeReturned =>
        /\ \A f \in PlainFields(book_type) :
              /\ Len(merged[f]) = Len(FieldOverSegments(f))
              /\ \A p \in 1..Len(merged[f]) : merged[f][p] = FieldOverSegments(f)[p]
        /\ \A f \in SetFields(book_type) :
              merged[f] = Flatten([s \in 1..Len(extractions) |->
                                     FirstSeenOrder(Get(extractions[s], f, <<>>))])

\* What merge_extractions does guarantee for a set-like field: segment by
\* segment, the distinct values of the segment's list in some order.
SetFieldsInSegmentOrder ==
    MergeReturned =>
        \A f \in SetFields(book_type) :
            /\ merged[f] = Flatten([s \in 1..Len(extractions) |-> merge_orders[s][f]])
            /\ \A s \in 1..Len(extractions) :
                  /\ Elems(merge_orders[s][f]) = Elems(Get(extractions[s], f, <<>>))
                  /\ Len(merge_orders[s][f]) = Cardinality(Elems(merge_orders[s][f]))

(***************************************************************************)
(* Further properties of generate_summary, checked under SpecSummary.      *)
(***************************************************************************)
RECURSIVE Reverse(_)
\* A text read backwards.
Reverse(s) == IF s = <<>> THEN <<>> ELSE Append(Reverse(Tail(s)), s[1])

\* s[-k:], the last k characters of s (all of s when it is shorter).
Suffix(s, k) == Reverse(Prefix(Reverse(s), k))

\* The segment requests generate_summary has sent on its multi-segment path.
SegmentRequestsSent ==
    IF Len(sum_chunks) > 1
    THEN 1..(IF Len(sum_requests) < Len(sum_chunks) THEN Len(sum_requests)
                                                    ELSE Len(sum_chunks))
    ELSE {}

\* The request of segment k was answered.
Answered(k) == k <= Len(sum_responses) /\ sum_responses[k] # <<>>

\* C20, as claimed: the request for segment k > 1 carries the last at most 500
\* characters of the summary of segment k - 1, the request for segment 1
\* carries no excerpt, and the requests are sent in segment order.
C20_TrailingExcerptOfPrevious ==
    \A k \in SegmentRequestsSent :
        /\ sum_requests[k].part = k
        /\ sum_requests[k].chapter_text = sum_chunks[k]
        /\ sum_requests[k].has_previous = (k > 1)
        /\ k = 1 => sum_requests[k].previous_part = <<>>
        /\ k > 1 => /\ Answered(k - 1)
                    /\ sum_requests[k].previous_part
                           = Suffix(sum_responses[k - 1], 500)

\* C20, amended: the request for segment k > 1 carries the first at most 500
\* characters of the summary of segment k - 1 and of no other segment, the
\* request for segment 1 carries no excerpt, and the requests are sent in
\* segment order, each after the one before it was answered.
C20_LeadingExcerptOfPrevious ==
    \A k \in SegmentRequestsSent :
        /\ sum_requests[k].part = k
        /\ sum_requests[k].chapter_text = sum_chunks[k]
        /\ sum_requests[k].has_previous = (k > 1)
        /\ sum_requests[k].story_so_far = sum_story
        /\ k = 1 => sum_requests[k].previous_part = <<>>
        /\ k > 1 => /\ Answered(k - 1)
                    /\ sum_requests[k].previous_part
                           = Prefix(sum_responses[k - 1], 500)
                    /\ TextLen(sum_requests[k].previous_part) <= 500
        /\ Answered(k) => chunk_summaries[k] = sum_responses[k]

\* C20's case: three segments; the first summary is short and carried whole,
\* the second is longer than 500 characters and differs from the first, and
\* the third request carries its first 500 characters, which are not its last.
C20_Witness ==
    /\ Len(sum_chunks) = 3
    /\ Len(sum_requests) >= 3
    /\ TextLen(sum_responses[1]) < 500
    /\ sum_requests[2].previous_part = sum_responses[1]
    /\ TextLen(sum_responses[2]) > 500
    /\ TextLen(sum_requests[3].previous_part) = 500
    /\ sum_requests[3].previous_part # Suffix(sum_responses[2], 500)
    /\ sum_requests[3].previous_part # Prefix(sum_responses[1], 500)

(***************************************************************************)
(* The shape of what extract_elements returns, checked under SpecExtract.  *)
(***************************************************************************)
\* C21, as claimed: whenever extract_elements returns, single-segment and
\* multi-segment alike, the record holds every field of its category's shape;
\* a field no response spelled is there with its empty container.
C21_ResultHasEveryField ==
    ext_pc = "returned" =>
        \A f \in DOMAIN EmptyMerged(ext_book_type) :
            /\ f \in DOMAIN ext_result
            /\ (\A k \in 1..Len(ext_responses) :
                    f \notin DOMAIN json_loads(ext_responses[k]).value)
                  => ext_result[f] = EmptyMerged(ext_book_type)[f]

\* What holds instead: the multi-segment path returns every field, the
\* single-segment path returns exactly the fields the response spelled.
ResultFieldsByPath ==
    ext_pc = "returned" =>
        IF Len(ext_chunks) > 1
        THEN DOMAIN ext_result = DOMAIN EmptyMerged(ext_book_type)
        ELSE ext_result = json_loads(ext_responses[1]).value

(***************************************************************************)
(* The rounding and the band of the target, checked under SpecTarget.      *)
(***************************************************************************)
\* round(w * 0.13) as Python computes it: to the nearest integer, a tie to
\* the even neighbour.
RoundOfRatio(w) ==
    LET q == (13 * w) \div 100
        r == (13 * w) % 100
    IN  IF r > 50 THEN q + 1
        ELSE IF r < 50 THEN q
        ELSE IF q % 2 = 0 THEN q ELSE q + 1

\* C22, as claimed: the target of a chapter of w words is
\* max(200, round(w * 0.13)).
C22_TargetIsRounded ==
    \A a \in 1..Len(target_calls) :
        target_calls[a].target_words =
            Max(200, RoundOfRatio(target_calls[a].original_words))

\* C22, amended: the target is max(200, int(w * 0.13)), the product cut to
\* the integer below it: the target is at least 200; a target above 200 is
\* the largest integer not above 13 w / 100; a target of 200 means 13 w / 100
\* is below 201.
C22_TargetIsTruncated ==
    \A a \in 1..Len(target_calls) :
        LET w == target_calls[a].original_words
            t == target_calls[a].target_words
        IN  /\ t >= 200
            /\ t > 200 => 100 * t <= 13 * w /\ 13 * w < 100 * (t + 1)
            /\ t = 200 => 13 * w < 100 * 201

\* C22's case: a 3000-word chapter gets 390, and a 1544-word chapter, whose
\* 13% is 200.72, gets 200 where rounding would give 201.
C22_Witness ==
    /\ Len(target_calls) = 2
    /\ target_calls[1].original_words = 3000
    /\ target_calls[1].target_words = 390
    /\ target_calls[2].original_words = 1544
    /\ target_calls[2].target_words = 200
    /\ RoundOfRatio(1544) = 201

\* C25: a chapter of at least 1334 words gets a target between 10% and 15% of
\* its words; a processed chapter of 100 to 1333 words gets exactly 200, which
\* is more than 15% of its words, and more than the chapter itself when the
\* chapter has fewer than 200 words.
C25_TargetWithinBandFrom1334 ==
    \A a \in 1..Len(target_calls) :
        LET w == target_calls[a].original_words
            t == target_calls[a].target_words
        IN  /\ w >= 1334 => 10 * w <= 100 * t /\ 100 * t <= 15 * w
            /\ (w >= 100 /\ w <= 1333) =>
                  /\ t = 200
                  /\ 100 * t > 15 * w
                  /\ w < 200 => t > w

\* C25's case: the two sides of the boundary, 1333 words (200 is over 15%)
\* and 1334 words (200 is within the band).
C25_Witness ==
    /\ Len(target_calls) = 2
    /\ target_calls[1].original_words = 1333
    /\ target_calls[1].target_words = 200
    /\ 100 * target_calls[1].target_words > 15 * 1333
    /\ target_calls[2].original_words = 1334
    /\ target_calls[2].target_words = 200
    /\ 100 * target_calls[2].target_words <= 15 * 1334

(***************************************************************************)
(* The writer of the rolling context and the handling of a raising stage,  *)
(* checked under Spec.                                                     *)
(***************************************************************************)
\* The stages of the loop body of process_book.
StagePcs == {"extract", "summary", "analysis", "update"}

\* The call a step appended to calls.
NewCall == calls'[Len(calls')]

\* C23: within process_book the context is assigned only by the update step
\* (after context = {} at the start of the book), at most once per chapter;
\* every other step leaves it unchanged; and what the stages of one chapter
\* are handed (prior_context, story_so_far, themes_so_far, current_context)
\* is read from one and the same context value.
C23_ContextHasOneWriter ==
    /\ [](pc \in StagePcs =>
              /\ story_so_far = StoryEntry(context)
              /\ themes_so_far = ThemesOf(context))
    /\ [][/\ context' # context =>
                \/ /\ pc = "update"
                   /\ pc' = "save"
                   /\ i' = i
                   /\ \A k \in 1..Len(calls) :
                          ~(calls[k].fn = "update_context" /\ calls[k].chapter = i)
                \/ pc = "run_all" /\ context' = EmptyContext
          /\ (pc \in StagePcs /\ calls' # calls) =>
                /\ NewCall.chapter = i
                /\ pc = "extract" => NewCall.prior_context = StoryEntry(context)
                /\ pc = "summary" => NewCall.story_so_far = StoryEntry(context)
                /\ pc = "analysis" => NewCall.themes_so_far = ThemesOf(context)
                /\ pc = "update" => NewCall.current_context = context]_vars

\* C23's case: the update of the second chapter has just replaced the context;
\* the chapter's extraction, summary and analysis were handed the story and
\* the themes of the context the first chapter left, and its update that
\* context itself.
C23_Witness ==
    /\ pc = "save"
    /\ i = 2
    /\ Len(calls) = 8
    /\ calls[4].result # EmptyContext
    /\ calls[5].prior_context = StoryEntry(calls[4].result)
    /\ calls[5].prior_context # ""
    /\ calls[6].story_so_far = calls[5].prior_context
    /\ calls[7].themes_so_far = ThemesOf(calls[4].result)
    /\ calls[7].themes_so_far # <<>>
    /\ calls[8].current_context = calls[4].result
    /\ context = calls[8].result
    /\ context # calls[4].result

\* C24: when a stage raises, process_book stops at once: the raising call is
\* the book's last, no later chapter is processed, book_context.json is not
\* written, the outputs of the earlier chapters stay as they were written;
\* run_all records the failure and takes the next book, which starts from an
\* empty context.
C24_RaiseEndsBookNotRun ==
    /\ [](/\ \A k \in 1..Len(calls) : ~calls[k].ok =>
                /\ k = Len(calls)
                /\ pc \in {"raised", "run_all", "all_done"}
                /\ i = calls[k].chapter
                /\ context_file = <<>>
                /\ DOMAIN files = {c \in Processed : c < i}
                /\ \A c \in DOMAIN files : FileComplete(c)
          /\ pc = "raised" => calls # <<>> /\ ~calls[Len(calls)].ok)
    /\ [][/\ pc' = "raised" =>
                /\ pc \in StagePcs
                /\ ~NewCall.ok
                /\ files' = files
                /\ context_file' = context_file
                /\ context' = context
          /\ pc = "raised" =>
                /\ pc' = "run_all"
                /\ book' = book + 1
                /\ outcomes' = Append(outcomes, "raised")
                /\ files' = files
                /\ context_file' = context_file
          /\ (pc = "run_all" /\ book <= num_books) =>
                /\ pc' = "chapter"
                /\ book' = book
                /\ i' = 1
                /\ context' = EmptyContext
                /\ calls' = <<>>]_vars

\* C24's case: the second chapter of the first book raised after the first
\* chapter's output was written and its update left a context; run_all has
\* caught the error and is about to start the second book.
C24_Witness ==
    /\ pc = "run_all"
    /\ book = 2
    /\ num_books >= 2
    /\ outcomes = <<"raised">>
    /\ i = 2
    /\ FileComplete(1)
    /\ context # EmptyContext
    /\ context_file = <<>>
    /\ ~calls[Len(calls)].ok

====
